---- MODULE Spec2Model ----
(* State-machine model of canvas_notion_sync.py: the Canvas -> Notion       *)
(* assignment mirror (schema reconciliation, delta pass, full scan,         *)
(* watermark).  Instants are integers counting hours (UTC).                 *)
EXTENDS Integers, Sequences, FiniteSets, TLC

\* ---------------------------------------------------------------- bounds
MaxTicks == 1          \* how far the wall clock may advance (hours)
MaxPages == 2          \* cap on the number of destination records
MaxRuns  == 2          \* cap on the number of invocations of main

\* ------------------------------------------------------------- constants
LOOKAHEAD_DAYS == 120
LOOKBACK_DAYS  == 7
HoursPerDay    == 24
TzOffset       == -7   \* America/Phoenix, hours from UTC
Now0           == 1000 \* the clock's value in the initial state
NoTime         == -1   \* None where a datetime is expected
NoPage         == 0    \* None where a page id is expected

COURSE_IDS == <<1, 2>>
OVERRIDES  == [c \in {1} |-> "CSE 485"]

AllProcs == {1, 2}     \* invocation slots; the single-flight Spec runs slot 1

VARIABLES
  dbProps,       \* destination: column name -> type, "absent" if missing
  pages,         \* destination: the records, page id = index
  lastSyncFile,  \* .state/last_sync.txt : NoTime if missing, else the instant
  now,           \* the wall clock
  canvas,        \* source: course id -> course object and assignment list
  runs,          \* number of invocations started so far
  pc,            \* per invocation: position in main
  DB_SCHEMA,     \* per invocation: <<>> (empty) or <<column map>>
  SELECT_CACHE,  \* per invocation: column name -> "unset" | "yes" | "no"
  STATUS_IS_STATUS_TYPE,
  log,           \* per invocation: set of message kinds printed
  horizon,       \* per invocation: [start, end]
  last_sync,     \* per invocation: the watermark as loaded
  ci,            \* per invocation: index into COURSE_IDS
  course_name,
  items,         \* per invocation: the list being iterated (assignments / changed)
  ai,            \* per invocation: index into items
  props,         \* per invocation: the payload built for the current item
  page_id,       \* per invocation: result of find_by_key
  dss,           \* call frame of decide_status_from_submission (SpecStatus)
  es,            \* calls of ensure_schema made so far (SpecSchema)
  scan1          \* harness of SpecTwice: records after the first full_scan

destVars  == <<dbProps, pages>>
cacheVars == <<DB_SCHEMA, SELECT_CACHE, STATUS_IS_STATUS_TYPE>>
loopVars  == <<items, ai, props, page_id>>
mainVars  == <<horizon, last_sync, ci, course_name>>
envVars   == <<now, canvas, runs, dss, es, scan1>>
vars == <<dbProps, pages, lastSyncFile, now, canvas, runs, pc, DB_SCHEMA,
          SELECT_CACHE, STATUS_IS_STATUS_TYPE, log, horizon, last_sync, ci,
          course_name, items, ai, props, page_id, dss, es, scan1>>

\* ------------------------------------------------------------ destination
ColNames == {"Task", "Class", "Type", "Due", "Time", "Notes",
             "Submission Link", "Status", "Key"}
Unset == <<>>                      \* a field without a value / not in a payload
EmptyProps == [f \in ColNames |-> Unset]

\* ------------------------------------------------------------ time helpers
\* parse_canvas_time: None or "" -> None; a well-formed stamp -> its instant
\* (a stamp without offset is taken as UTC); anything else raises.
ParseRaises(due_at) == due_at.kind = "bad"
parse_canvas_time(due_at) ==
  IF due_at.kind = "iso" THEN due_at.t ELSE NoTime

\* time_str: "%I:%M %p" of the local time without the leading zero
time_str(dt) ==
  LET h24 == (dt + TzOffset) % HoursPerDay
      h12 == IF h24 % 12 = 0 THEN 12 ELSE h24 % 12
  IN  <<h12, 0, IF h24 < 12 THEN "AM" ELSE "PM">>

\* ---------------------------------------------------------------- mapping
key_for(course_id, assignment_id) == <<course_id, assignment_id>>

Truthy(s) == s \notin {"None", ""}

ExamNames == {"Midterm 1", "FINAL review"}   \* names containing an exam keyword
classify_type(a) ==
  IF a.quiz_id # 0 THEN "Quiz"
  ELSE IF a.name \in ExamNames THEN "Exam"
  ELSE "Assignment"

decide_status_Mut(sub, due_dt, t) ==
  IF sub.kind = "dict" /\ sub.workflow_state \in {"graded", "submitted"}
    THEN "Complete"
  ELSE IF sub.kind = "dict" /\ sub.workflow_state \in {"pending_review"}
    THEN "In Progress"
  ELSE IF due_dt # NoTime /\ due_dt < t THEN "DNF"
  ELSE "To do"

\* decide_status_from_submission; t is the value now_local() returns
decide_status_from_submission(sub, due_dt, t) ==
  IF sub.kind = "dict"
       /\ (sub.workflow_state \in {"graded", "submitted"} \/ Truthy(sub.submitted_at))
    THEN "Complete"
  ELSE IF sub.kind = "dict" /\ sub.workflow_state \in {"pending_review"}
    THEN "In Progress"
  ELSE IF due_dt # NoTime /\ due_dt < t THEN "DNF"
  ELSE "To do"

status_prop_value_Mut(flag, status_name) == <<"status", status_name>>

status_prop_value(flag, status_name) ==
  IF flag THEN <<"status", status_name>> ELSE <<"select", status_name>>

IsTag(tok) == tok \in {"<p>", "</p>", "<br>"}
StripHtml(description) == SelectSeq(description, LAMBDA tok : ~IsTag(tok))

\* ----------------------------------------------------------- Notion schema
\* The fixed declarations of ensure_schema, in call order (Status is handled
\* between "Submission Link" and "Key").
Declared == [Task |-> "title", Class |-> "select", Type |-> "select",
             Due |-> "date", Time |-> "rich_text", Notes |-> "rich_text",
             Status |-> "status", Key |-> "rich_text"]
           @@ ("Submission Link" :> "url")
FirstSeven == <<"Task", "Class", "Type", "Due", "Time", "Notes", "Submission Link">>

\* A schema context: the destination's columns, this invocation's cache and
\* flag, what it printed, whether an exception escaped, and the columns for
\* which notion.databases.update was called.
SchemaCtx(p) == [db |-> dbProps, cache |-> DB_SCHEMA[p],
                 flag |-> STATUS_IS_STATUS_TYPE[p], log |-> log[p],
                 crashed |-> FALSE, calls |-> {}]
AddLog(st, msg) == [st EXCEPT !.log = @ \cup {msg}]

\* The remote calls of one schema pass that fail: column creations (create),
\* the retrieve that follows a creation (reload), and the retrieve made on an
\* empty cache at the named column (retr).
Absent(db) == {c \in ColNames : db[c] = "absent"}
Failures(db) ==
  {[create |-> cr, reload |-> rl, retr |-> rt] :
     cr \in SUBSET Absent(db), rl \in SUBSET Absent(db),
     rt \in {{}} \cup {{c} : c \in ColNames}}

\* load_db_schema: retrieve only when the cache is empty
LoadFails(st, at, F) == st.cache = <<>> /\ at \in F.retr
Loaded(st) == IF st.cache = <<>> THEN st.db ELSE st.cache[1]
load_db_schema(st) == [st EXCEPT !.cache = <<Loaded(st)>>]

db_has_property(st, name) == Loaded(st)[name] # "absent"

ensure_property_Mut(st, name, ptype, F) ==
  IF st.crashed THEN st
  ELSE IF LoadFails(st, name, F) THEN [st EXCEPT !.crashed = TRUE]
  ELSE
    LET st1 == load_db_schema(st)
        newdb == [st1.db EXCEPT ![name] = ptype]
    IN  IF st1.cache[1][name] = ptype THEN st1
        ELSE AddLog([st1 EXCEPT !.db = newdb, !.cache = <<newdb>>,
                                !.calls = @ \cup {name}],
                    "Created property")

ensure_property(st, name, ptype, F) ==
  IF st.crashed THEN st
  ELSE IF LoadFails(st, name, F) THEN [st EXCEPT !.crashed = TRUE]
  ELSE
    LET st1 == load_db_schema(st)
        existing_type == st1.cache[1][name]
        newdb == [st1.db EXCEPT ![name] = ptype]
    IN  IF existing_type # "absent"
          THEN IF existing_type # ptype
                 THEN AddLog(st1, "Warning: property type") ELSE st1
        ELSE LET st2 == [st1 EXCEPT !.calls = @ \cup {name}]
             IN  IF name \in F.create
                   THEN AddLog(st2, "Failed to create property")
                 ELSE IF name \in F.reload
                   THEN AddLog([st2 EXCEPT !.db = newdb, !.cache = <<>>],
                               "Failed to create property")
                 ELSE AddLog([st2 EXCEPT !.db = newdb, !.cache = <<newdb>>],
                             "Created property")

RECURSIVE EnsureAll(_, _, _)
EnsureAll(st, names, F) ==
  IF names = <<>> THEN st
  ELSE EnsureAll(ensure_property(st, Head(names), Declared[Head(names)], F),
                 Tail(names), F)

ensure_schema(st, F) ==
  LET s7 == EnsureAll(st, FirstSeven, F)
      s8 == IF s7.crashed THEN s7
            ELSE IF LoadFails(s7, "Status", F) THEN [s7 EXCEPT !.crashed = TRUE]
            ELSE LET s7l == load_db_schema(s7)
                 IN  IF db_has_property(s7l, "Status")
                       THEN [s7l EXCEPT !.flag = (s7l.cache[1]["Status"] = "status")]
                       ELSE [ensure_property(s7l, "Status", "status", F)
                               EXCEPT !.flag = TRUE]
  IN  ensure_property(s8, "Key", "rich_text", F)

\* property_is_select: memoised per column
property_is_select(st, memo, prop) ==
  IF memo[prop] # "unset" THEN memo[prop] = "yes"
  ELSE Loaded(st)[prop] \in {"select", "multi_select"}
Memoise(st, memo, prop) ==
  IF memo[prop] # "unset" THEN memo
  ELSE [memo EXCEPT ![prop] = IF property_is_select(st, memo, prop) THEN "yes" ELSE "no"]

\* ---------------------------------------------------------- upsert helpers
Matching(key) == {i \in 1..Len(pages) : pages[i]["Key"] = <<"rich_text", key>>}

find_by_key_AnyPage(st, key) ==
  {[st |-> load_db_schema(st), id |-> i] : i \in {NoPage} \cup (1..Len(pages))}

find_by_key_Mut(st, key) ==
  {[st |-> load_db_schema(st), id |-> NoPage]}
  \cup {[st |-> load_db_schema(st), id |-> i] : i \in Matching(key)}

\* find_by_key: every outcome [st, id] the call can have.  The query raises
\* when the Key column does not exist, and may raise for any other reason.
find_by_key(st, key) ==
  UNION {
    LET s0 == IF LoadFails(st, "Key", F) THEN [st EXCEPT !.crashed = TRUE]
              ELSE load_db_schema(st)
        s1 == IF s0.crashed THEN s0
              ELSE IF ~db_has_property(s0, "Key") THEN ensure_schema(s0, F)
              ELSE s0
    IN  IF s1.crashed THEN {[st |-> s1, id |-> NoPage]}
        ELSE {[st |-> AddLog(s1, "Notion query by Key failed"), id |-> NoPage]}
             \cup (IF s1.db["Key"] = "absent" THEN {}
                   ELSE IF Matching(key) = {} THEN {[st |-> s1, id |-> NoPage]}
                   ELSE {[st |-> s1, id |-> i] : i \in Matching(key)})
    : F \in Failures(st.db) }

\* The destination accepts a payload only if every column it names exists
\* and has the type the value is encoded for.
PayloadValid(pr, db) ==
  \A f \in ColNames : pr[f] # Unset => db[f] = pr[f][1]

Merge(rec, pr) == [f \in ColNames |-> IF pr[f] # Unset THEN pr[f] ELSE rec[f]]

upsert_page_Mut(pr, pid) ==
  {[pages |-> pages, ok |-> FALSE]}
  \cup (IF ~PayloadValid(pr, dbProps) \/ Len(pages) >= MaxPages THEN {}
        ELSE {[pages |-> Append(pages, pr), ok |-> TRUE]})

\* upsert_page: every outcome [pages, ok] of the update or create call
upsert_page(pr, pid) ==
  {[pages |-> pages, ok |-> FALSE]}
  \cup (IF ~PayloadValid(pr, dbProps) THEN {}
        ELSE IF pid # NoPage
          THEN {[pages |-> [pages EXCEPT ![pid] = Merge(@, pr)], ok |-> TRUE]}
        ELSE IF Len(pages) >= MaxPages THEN {}
        ELSE {[pages |-> Append(pages, pr), ok |-> TRUE]})

\* ------------------------------------------------------------------ source
DueNone   == [kind |-> "none", t |-> NoTime]
DueBad    == [kind |-> "bad",  t |-> NoTime]
DueAt(t)  == [kind |-> "iso",  t |-> t]
NoSub     == [kind |-> "None",  workflow_state |-> "None", submitted_at |-> "None"]
EmptySub  == [kind |-> "empty", workflow_state |-> "None", submitted_at |-> "None"]
Sub(ws, at) == [kind |-> "dict", workflow_state |-> ws, submitted_at |-> at]
Asg(id, name, quiz, due, desc, sub) ==
  [id |-> id, name |-> name, quiz_id |-> quiz, due_at |-> due,
   description |-> desc, submission |-> sub]

LookbackHours  == LOOKBACK_DAYS * HoursPerDay
LookaheadHours == LOOKAHEAD_DAYS * HoursPerDay

\* The entry of the changed-submissions list for assignment a: the caller's
\* submission with the assignment embedded.
DeltaEntry(a) ==
  [assignment |-> a,
   kind |-> "dict",
   workflow_state |-> IF a.submission.kind = "dict"
                        THEN a.submission.workflow_state ELSE "unsubmitted",
   submitted_at |-> a.submission.submitted_at]
NoIdEntry ==
  [assignment |-> Asg(0, "", 0, DueNone, <<>>, NoSub), kind |-> "dict",
   workflow_state |-> "unsubmitted", submitted_at |-> "None"]

\* The answers get_submissions_changed_since can give for a course: the
\* entries of any sub-list of its assignments, or one entry without assignment.
RECURSIVE SubLists(_)
SubLists(sq) ==
  IF sq = <<>> THEN {<<>>}
  ELSE LET rest == SubLists(Tail(sq))
       IN  rest \cup {<<Head(sq)>> \o r : r \in rest}
DeltaLists(course_id) ==
  {[i \in 1..Len(l) |-> DeltaEntry(l[i])] : l \in SubLists(canvas[course_id].assignments)}
  \cup {<<NoIdEntry>>}

CourseLabel(course_id, course) ==
  IF course_id \in DOMAIN OVERRIDES /\ OVERRIDES[course_id] # ""
    THEN <<OVERRIDES[course_id]>>
  ELSE IF course.course_code # "" THEN <<course.course_code>>
  ELSE IF course.name # "" THEN <<course.name>>
  ELSE <<"Course", course_id>>

\* ---------------------------------------------------------------- payloads
InHorizon_Mut(due_dt, h) == ~(due_dt <= h.start \/ due_dt >= h.end)

InHorizon(due_dt, h) == ~(due_dt < h.start \/ due_dt > h.end)

FullProps(p, course_id, a, due_dt, is_select) ==
  LET description == StripHtml(a.description)
  IN  [f \in ColNames |->
        CASE f = "Task"   -> <<"title", IF a.name # "" THEN <<a.name>>
                                         ELSE <<"Assignment", a.id>> >>
          [] f = "Type"   -> <<"select", classify_type(a)>>
          [] f = "Status" -> status_prop_value(STATUS_IS_STATUS_TYPE[p],
                               decide_status_from_submission(a.submission, due_dt, now))
          [] f = "Key"    -> <<"rich_text", key_for(course_id, a.id)>>
          [] f = "Due"    -> <<"date", due_dt>>
          [] f = "Time"   -> <<"rich_text", time_str(due_dt)>>
          [] f = "Notes"  -> IF description # <<>> THEN <<"rich_text", description>>
                             ELSE Unset
          [] f = "Submission Link" -> <<"url", <<course_id, a.id>> >>
          [] f = "Class"  -> IF is_select THEN <<"select", course_name[p]>>
                             ELSE <<"rich_text", course_name[p]>>]

DeltaProps_Mut(p, course_id, s, due_dt) ==
  [f \in ColNames |->
    CASE f = "Status" -> status_prop_value(STATUS_IS_STATUS_TYPE[p],
                           decide_status_from_submission(s, due_dt, now))
      [] f = "Due"    -> IF due_dt # NoTime THEN <<"date", due_dt>> ELSE Unset
      [] f = "Time"   -> IF due_dt # NoTime THEN <<"rich_text", time_str(due_dt)>>
                         ELSE Unset
      [] f = "Submission Link" -> <<"url", <<course_id, s.assignment.id>> >>
      [] f = "Type"   -> <<"select", classify_type(s.assignment)>>
      [] OTHER -> Unset]

DeltaProps(p, course_id, s, due_dt) ==
  [f \in ColNames |->
    CASE f = "Status" -> status_prop_value(STATUS_IS_STATUS_TYPE[p],
                           decide_status_from_submission(s, due_dt, now))
      [] f = "Due"    -> IF due_dt # NoTime THEN <<"date", due_dt>> ELSE Unset
      [] f = "Time"   -> IF due_dt # NoTime THEN <<"rich_text", time_str(due_dt)>>
                         ELSE Unset
      [] f = "Submission Link" -> <<"url", <<course_id, s.assignment.id>> >>
      [] OTHER -> Unset]

\* ------------------------------------------------ per-invocation book-keeping
NoMemo    == [c \in ColNames |-> "unset"]
NoHorizon == [start |-> 0, end |-> 0]
NoName    == <<>>
Terminal  == {"idle", "done", "crashed", "cancelled"}

SetCtx(p, st) ==
  /\ dbProps' = st.db
  /\ DB_SCHEMA' = [DB_SCHEMA EXCEPT ![p] = st.cache]
  /\ STATUS_IS_STATUS_TYPE' = [STATUS_IS_STATUS_TYPE EXCEPT ![p] = st.flag]
  /\ log' = [log EXCEPT ![p] = st.log]

FreshCache(p) ==
  /\ DB_SCHEMA' = [DB_SCHEMA EXCEPT ![p] = <<>>]
  /\ SELECT_CACHE' = [SELECT_CACHE EXCEPT ![p] = NoMemo]
  /\ STATUS_IS_STATUS_TYPE' = [STATUS_IS_STATUS_TYPE EXCEPT ![p] = TRUE]
FreshMain(p) ==
  /\ horizon' = [horizon EXCEPT ![p] = NoHorizon]
  /\ last_sync' = [last_sync EXCEPT ![p] = NoTime]
  /\ ci' = [ci EXCEPT ![p] = 0]
  /\ course_name' = [course_name EXCEPT ![p] = NoName]
FreshLoop(p) ==
  /\ items' = [items EXCEPT ![p] = <<>>]
  /\ ai' = [ai EXCEPT ![p] = 0]
  /\ props' = [props EXCEPT ![p] = EmptyProps]
  /\ page_id' = [page_id EXCEPT ![p] = NoPage]

\* The process ends (how = "done", "crashed": an exception escaped main,
\* "cancelled": it was killed); its memory is gone, its output stays.
Exit(p, how) ==
  /\ pc' = [pc EXCEPT ![p] = how]
  /\ FreshCache(p) /\ FreshMain(p) /\ FreshLoop(p)
\* The same when a schema pass crashed after changing the destination.
CrashCtx(p, st) ==
  /\ Exit(p, "crashed")
  /\ dbProps' = st.db
  /\ log' = [log EXCEPT ![p] = st.log]

Goto(p, where) == pc' = [pc EXCEPT ![p] = where]
Say(p, msg) == log' = [log EXCEPT ![p] = @ \cup {msg}]
NextItem(p) ==
  /\ ai' = [ai EXCEPT ![p] = @ + 1]
  /\ props' = [props EXCEPT ![p] = EmptyProps]
  /\ page_id' = [page_id EXCEPT ![p] = NoPage]
  /\ UNCHANGED items

\* ------------------------------------------------------------------- main
\* load_last_sync: None when the file is missing, empty or unreadable
load_last_sync == IF lastSyncFile = <<>> THEN NoTime ELSE lastSyncFile[1]

\* A new invocation of the script.
Start(p) ==
  /\ pc[p] \in Terminal
  /\ runs < MaxRuns
  /\ runs' = runs + 1
  /\ Goto(p, "main")
  /\ log' = [log EXCEPT ![p] = {}]
  /\ UNCHANGED <<destVars, lastSyncFile, now, canvas, dss, es, scan1,
                 cacheVars, mainVars, loopVars>>

\* main, line 345: ensure_schema()
MainEnsureSchema(p) ==
  /\ pc[p] = "main"
  /\ \E F \in Failures(dbProps) :
       LET st == ensure_schema(SchemaCtx(p), F)
       IN  IF st.crashed
             THEN CrashCtx(p, st)
             ELSE /\ SetCtx(p, st)
                  /\ Goto(p, "loaded")
                  /\ UNCHANGED <<SELECT_CACHE, mainVars, loopVars>>
  /\ UNCHANGED <<pages, lastSyncFile, envVars>>

\* main, lines 347-349: the horizon and the watermark
MainHorizon(p) ==
  /\ pc[p] = "loaded"
  /\ horizon' = [horizon EXCEPT ![p] = [start |-> now - LookbackHours,
                                        end |-> now + LookaheadHours]]
  /\ last_sync' = [last_sync EXCEPT ![p] = load_last_sync]
  /\ ci' = [ci EXCEPT ![p] = 1]
  /\ Goto(p, "course")
  /\ UNCHANGED <<destVars, lastSyncFile, envVars, cacheVars, log, course_name,
                 loopVars>>

MainCourse_Mut(p) ==
  /\ pc[p] = "course" /\ ci[p] <= Len(COURSE_IDS)
  /\ LET cid == COURSE_IDS[ci[p]]
     IN  \/ /\ course_name' = [course_name EXCEPT
                                 ![p] = CourseLabel(cid, canvas[cid].course)]
            /\ Goto(p, "delta_fetch")
            /\ UNCHANGED <<log, ci>>
         \/ /\ Say(p, "Could not load course")
            /\ ci' = [ci EXCEPT ![p] = @ + 1]
            /\ UNCHANGED <<pc, course_name>>
  /\ UNCHANGED <<destVars, lastSyncFile, envVars, cacheVars, horizon, last_sync,
                 loopVars>>

\* main, lines 352-360: the next course id, get_course
MainCourse(p) ==
  /\ pc[p] = "course" /\ ci[p] <= Len(COURSE_IDS)
  /\ LET cid == COURSE_IDS[ci[p]]
     IN  \/ /\ course_name' = [course_name EXCEPT
                                 ![p] = CourseLabel(cid, canvas[cid].course)]
            /\ Goto(p, IF last_sync[p] # NoTime THEN "delta_fetch" ELSE "scan_fetch")
            /\ UNCHANGED <<log, ci>>
         \/ /\ Say(p, "Could not load course")
            /\ ci' = [ci EXCEPT ![p] = @ + 1]
            /\ UNCHANGED <<pc, course_name>>
  /\ UNCHANGED <<destVars, lastSyncFile, envVars, cacheVars, horizon, last_sync,
                 loopVars>>

save_last_sync_Mut(p) ==
  /\ pc[p] = "course"
  /\ lastSyncFile' = <<now>>
  /\ Say(p, "Sync complete.")
  /\ Exit(p, "done")
  /\ UNCHANGED <<destVars, envVars>>

\* main, lines 365-366: after the loop, save_last_sync(now_local())
save_last_sync(p) ==
  /\ pc[p] = "course" /\ ci[p] > Len(COURSE_IDS)
  /\ lastSyncFile' = <<now>>
  /\ Say(p, "Sync complete.")
  /\ Exit(p, "done")
  /\ UNCHANGED <<destVars, envVars>>

\* ------------------------------------------------------------- delta pass
\* sync_status_deltas_since, lines 261-266
DeltaFetch(p) ==
  /\ pc[p] = "delta_fetch"
  /\ \/ /\ \E changed \in DeltaLists(COURSE_IDS[ci[p]]) :
             items' = [items EXCEPT ![p] = changed]
        /\ ai' = [ai EXCEPT ![p] = 1]
        /\ Goto(p, "delta_loop")
        /\ UNCHANGED <<log, cacheVars, mainVars, props, page_id>>
     \/ /\ Say(p, "Delta fetch failed")          \* requests.HTTPError
        /\ Goto(p, "scan_fetch")
        /\ UNCHANGED <<cacheVars, mainVars, loopVars>>
     \/ /\ Exit(p, "crashed")                    \* any other exception
        /\ UNCHANGED log
  /\ UNCHANGED <<destVars, lastSyncFile, envVars>>

DeltaStep_Mut(p) ==
  /\ pc[p] = "delta_loop" /\ ai[p] <= Len(items[p])
  /\ LET s == items[p][ai[p]]
         aid == s.assignment.id
         cid == COURSE_IDS[ci[p]]
     IN  IF aid = 0
           THEN /\ NextItem(p)
                /\ UNCHANGED <<dbProps, pc, cacheVars, log, mainVars>>
           ELSE \E r \in find_by_key(SchemaCtx(p), key_for(cid, aid)) :
                  IF r.st.crashed \/ ParseRaises(s.assignment.due_at)
                    THEN CrashCtx(p, r.st)
                  ELSE /\ SetCtx(p, r.st)
                       /\ page_id' = [page_id EXCEPT ![p] = r.id]
                       /\ props' = [props EXCEPT ![p] =
                            DeltaProps(p, cid, s, parse_canvas_time(s.assignment.due_at))]
                       /\ Goto(p, "delta_upsert")
                       /\ UNCHANGED <<SELECT_CACHE, mainVars, items, ai>>
  /\ UNCHANGED <<pages, lastSyncFile, envVars>>

\* sync_status_deltas_since, lines 268-288: one changed submission up to its payload
DeltaStep(p) ==
  /\ pc[p] = "delta_loop" /\ ai[p] <= Len(items[p])
  /\ LET s == items[p][ai[p]]
         aid == s.assignment.id
         cid == COURSE_IDS[ci[p]]
     IN  IF aid = 0
           THEN /\ NextItem(p)
                /\ UNCHANGED <<dbProps, pc, cacheVars, log, mainVars>>
           ELSE \E r \in find_by_key(SchemaCtx(p), key_for(cid, aid)) :
                  IF r.st.crashed THEN CrashCtx(p, r.st)
                  ELSE IF r.id = NoPage
                    THEN /\ SetCtx(p, r.st)
                         /\ NextItem(p)
                         /\ UNCHANGED <<pc, SELECT_CACHE, mainVars>>
                  ELSE IF ParseRaises(s.assignment.due_at)
                    THEN CrashCtx(p, r.st)
                  ELSE /\ SetCtx(p, r.st)
                       /\ page_id' = [page_id EXCEPT ![p] = r.id]
                       /\ props' = [props EXCEPT ![p] =
                            DeltaProps(p, cid, s, parse_canvas_time(s.assignment.due_at))]
                       /\ Goto(p, "delta_upsert")
                       /\ UNCHANGED <<SELECT_CACHE, mainVars, items, ai>>
  /\ UNCHANGED <<pages, lastSyncFile, envVars>>

\* sync_status_deltas_since, line 290
DeltaUpsert(p) ==
  /\ pc[p] = "delta_upsert"
  /\ \E o \in upsert_page(props[p], page_id[p]) :
       /\ pages' = o.pages
       /\ log' = [log EXCEPT ![p] = IF o.ok THEN @ ELSE @ \cup {"Notion upsert failed"}]
  /\ NextItem(p)
  /\ Goto(p, "delta_loop")
  /\ UNCHANGED <<dbProps, lastSyncFile, envVars, cacheVars, mainVars>>

\* sync_status_deltas_since returns; main goes on to full_scan (line 363)
DeltaEnd(p) ==
  /\ pc[p] = "delta_loop" /\ ai[p] > Len(items[p])
  /\ FreshLoop(p)
  /\ Goto(p, "scan_fetch")
  /\ UNCHANGED <<destVars, lastSyncFile, envVars, cacheVars, log, mainVars>>

\* -------------------------------------------------------------- full scan
\* full_scan, line 294
FsFetch(p) ==
  /\ pc[p] = "scan_fetch"
  /\ \/ /\ items' = [items EXCEPT ![p] = canvas[COURSE_IDS[ci[p]]].assignments]
        /\ ai' = [ai EXCEPT ![p] = 1]
        /\ Goto(p, "scan_loop")
        /\ UNCHANGED <<cacheVars, mainVars, props, page_id>>
     \/ Exit(p, "crashed")                       \* raise_for_status, not caught
  /\ UNCHANGED <<destVars, lastSyncFile, envVars, log>>

\* full_scan, lines 295-337: the filter and the payload of one assignment
FsFilter(p) ==
  /\ pc[p] = "scan_loop" /\ ai[p] <= Len(items[p])
  /\ LET a == items[p][ai[p]]
         cid == COURSE_IDS[ci[p]]
         due_at_local == parse_canvas_time(a.due_at)
         st == SchemaCtx(p)
         memo == SELECT_CACHE[p]
     IN  IF ParseRaises(a.due_at)
           THEN Exit(p, "crashed")
         ELSE IF due_at_local = NoTime \/ ~InHorizon(due_at_local, horizon[p])
           THEN /\ NextItem(p)
                /\ UNCHANGED <<pc, cacheVars, mainVars>>
         ELSE \/ /\ memo["Class"] = "unset" /\ DB_SCHEMA[p] = <<>>
                 /\ Exit(p, "crashed")           \* the retrieve raises
              \/ /\ props' = [props EXCEPT ![p] =
                      FullProps(p, cid, a, due_at_local,
                                property_is_select(st, memo, "Class"))]
                 /\ SELECT_CACHE' = [SELECT_CACHE EXCEPT
                                       ![p] = Memoise(st, memo, "Class")]
                 /\ DB_SCHEMA' = [DB_SCHEMA EXCEPT
                      ![p] = IF memo["Class"] = "unset"
                               THEN load_db_schema(st).cache ELSE @]
                 /\ Goto(p, "scan_find")
                 /\ UNCHANGED <<STATUS_IS_STATUS_TYPE, mainVars, items, ai, page_id>>
  /\ UNCHANGED <<destVars, lastSyncFile, envVars, log>>

\* full_scan, line 339
FsFind(p) ==
  /\ pc[p] = "scan_find"
  /\ \E r \in find_by_key(SchemaCtx(p), props[p]["Key"][2]) :
       IF r.st.crashed THEN CrashCtx(p, r.st)
       ELSE /\ SetCtx(p, r.st)
            /\ page_id' = [page_id EXCEPT ![p] = r.id]
            /\ Goto(p, "scan_upsert")
            /\ UNCHANGED <<SELECT_CACHE, mainVars, items, ai, props>>
  /\ UNCHANGED <<pages, lastSyncFile, envVars>>

FsUpsert_Mut(p) ==
  /\ pc[p] = "scan_upsert"
  /\ \E o \in upsert_page(props[p], page_id[p]) :
       IF o.ok
         THEN /\ pages' = o.pages
              /\ NextItem(p)
              /\ Goto(p, "scan_loop")
              /\ UNCHANGED <<cacheVars, mainVars, log>>
         ELSE /\ Exit(p, "crashed")
              /\ UNCHANGED <<pages, log>>
  /\ UNCHANGED <<dbProps, lastSyncFile, envVars>>

\* full_scan, lines 340-341
FsUpsert(p) ==
  /\ pc[p] = "scan_upsert"
  /\ \E o \in upsert_page(props[p], page_id[p]) :
       /\ pages' = o.pages
       /\ log' = [log EXCEPT ![p] = IF o.ok THEN @ ELSE @ \cup {"Notion upsert failed"}]
  /\ NextItem(p)
  /\ Goto(p, "scan_loop")
  /\ UNCHANGED <<dbProps, lastSyncFile, envVars, cacheVars, mainVars>>

\* full_scan returns; the loop of main moves to the next course id
FsEnd(p) ==
  /\ pc[p] = "scan_loop" /\ ai[p] > Len(items[p])
  /\ FreshLoop(p)
  /\ ci' = [ci EXCEPT ![p] = @ + 1]
  /\ Goto(p, "course")
  /\ UNCHANGED <<destVars, lastSyncFile, envVars, cacheVars, log, horizon,
                 last_sync, course_name>>

\* ------------------------------------------------------------ environment
\* The process is killed.
Cancel(p) ==
  /\ pc[p] \notin Terminal
  /\ Exit(p, "cancelled")
  /\ UNCHANGED <<destVars, lastSyncFile, envVars, log>>

\* The wall clock advances by an hour.
Tick ==
  /\ now < Now0 + MaxTicks
  /\ now' = now + 1
  /\ UNCHANGED <<destVars, lastSyncFile, canvas, runs, dss, es, scan1, pc, cacheVars,
                 log, mainVars, loopVars>>

\* ---------------------------------------------------------- initial states
\* The destinations the runs start from: the declared columns, one column of
\* another type or missing, and both Class and Key missing.
SchemaConfigs ==
  {db \in {[Declared EXCEPT !["Class"] = c, !["Status"] = s, !["Key"] = k] :
             c \in {"select", "rich_text", "absent"},
             s \in {"status", "select", "absent"},
             k \in {"rich_text", "absent"}} :
     \/ Cardinality({n \in ColNames : db[n] # Declared[n]}) <= 1
     \/ Absent(db) = {"Class", "Key"}}

\* A record mirrored by an earlier run, for a destination with these columns.
OldRecord(db) ==
  [f \in ColNames |->
    CASE f = "Task"   -> <<"title", <<"HW3 (draft)">> >>
      [] f = "Type"   -> <<"select", "Assignment">>
      [] f = "Status" -> <<db["Status"], "To do">>
      [] f = "Key"    -> <<"rich_text", key_for(1, 1)>>
      [] f = "Due"    -> <<"date", Now0 - 48>>
      [] f = "Time"   -> <<"rich_text", time_str(Now0 - 48)>>
      [] f = "Notes"  -> Unset
      [] f = "Submission Link" -> <<"url", <<1, 1>> >>
      [] f = "Class"  -> <<db["Class"], <<"CSE 485">> >>]
InitPages(db) ==
  {<<>>} \cup (IF Absent(db) = {} THEN {<<OldRecord(db)>>} ELSE {})

Text == <<"<p>", "Read ch. 1", "</p>">>
Course1Lists ==
  << <<Asg(1, "HW3", 0, DueAt(Now0), Text, NoSub),
      Asg(2, "Midterm 1", 0, DueAt(Now0 - LookbackHours - 1), <<>>, Sub("graded", "None"))>>,
    <<Asg(1, "", 7, DueAt(Now0 - LookbackHours), <<"<br>">>,
          Sub("unsubmitted", "2024-03-01T06:00:00Z")),
      Asg(2, "HW4", 0, DueNone, <<>>, NoSub)>>,
    <<Asg(1, "HW3", 0, DueAt(Now0 + LookaheadHours + 1), <<>>, NoSub),
      Asg(2, "FINAL review", 0, DueAt(Now0 + LookaheadHours), <<>>,
          Sub("pending_review", "None"))>>,
    <<Asg(1, "HW3", 0, DueBad, <<>>, NoSub),
      Asg(2, "HW4", 0, DueAt(Now0 + 24), <<>>, EmptySub)>> >>
Course2 ==
  << [course |-> [course_code |-> "MAT 101", name |-> "Calculus"],
     assignments |-> <<Asg(1, "Quiz 1", 3, DueAt(Now0 + 24), <<>>, Sub("submitted", ""))>>],
    [course |-> [course_code |-> "", name |-> ""], assignments |-> <<>>] >>
CanvasOf(l1, c2) ==
  (1 :> [course |-> [course_code |-> "CSE 485 (2024)", name |-> "Capstone"],
         assignments |-> l1]) @@ (2 :> c2)
CanvasConfigs ==
  {CanvasOf(Course1Lists[i], Course2[(i % 2) + 1]) : i \in 1..Len(Course1Lists)}

NoCall == [sub |-> NoSub, due_dt |-> NoTime, t |-> 0, ret |-> "none"]
NoSchemaCall == [n |-> 0, before |-> <<>>, issued |-> <<>>]

InitLocals ==
  /\ pc = [p \in AllProcs |-> "idle"]
  /\ DB_SCHEMA = [p \in AllProcs |-> <<>>]
  /\ SELECT_CACHE = [p \in AllProcs |-> NoMemo]
  /\ STATUS_IS_STATUS_TYPE = [p \in AllProcs |-> TRUE]
  /\ log = [p \in AllProcs |-> {}]
  /\ horizon = [p \in AllProcs |-> NoHorizon]
  /\ last_sync = [p \in AllProcs |-> NoTime]
  /\ ci = [p \in AllProcs |-> 0]
  /\ course_name = [p \in AllProcs |-> NoName]
  /\ items = [p \in AllProcs |-> <<>>]
  /\ ai = [p \in AllProcs |-> 0]
  /\ props = [p \in AllProcs |-> EmptyProps]
  /\ page_id = [p \in AllProcs |-> NoPage]

Init ==
  /\ dbProps \in SchemaConfigs
  /\ pages \in InitPages(dbProps)
  /\ lastSyncFile \in {<<>>, <<Now0 - 24>>}
  /\ now = Now0
  /\ canvas \in CanvasConfigs
  /\ runs = 0
  /\ dss = NoCall
  /\ scan1 = <<>>
  /\ es = NoSchemaCall
  /\ InitLocals

Run(p) ==
  \/ Start(p) \/ MainEnsureSchema(p) \/ MainHorizon(p) \/ MainCourse(p)
  \/ DeltaFetch(p) \/ DeltaStep(p) \/ DeltaUpsert(p) \/ DeltaEnd(p)
  \/ FsFetch(p) \/ FsFilter(p) \/ FsFind(p) \/ FsUpsert(p) \/ FsEnd(p)
  \/ save_last_sync(p) \/ Cancel(p)

\* Single-flight: one invocation at a time.
Next == Run(1) \/ Tick
Spec == Init /\ [][Next]_vars

\* --------------------------------------- the classifier as a pure function
\* decide_status_from_submission applied to every submission snapshot, due
\* instant and clock value of a bounded domain.
WorkflowStates == {"None", "unsubmitted", "submitted", "graded", "pending_review"}
Subs == {NoSub, EmptySub}
        \cup {Sub(ws, at) : ws \in WorkflowStates,
                            at \in {"None", "", "2024-03-01T06:00:00Z"}}
InitStatus ==
  /\ dss \in {[sub |-> sb, due_dt |-> d, t |-> t, ret |-> "none"] :
                sb \in Subs, d \in {NoTime, Now0 - 1, Now0, Now0 + 1},
                t \in {Now0, Now0 + 1}}
  /\ dbProps = Declared /\ pages = <<>> /\ lastSyncFile = <<>> /\ now = Now0
  /\ canvas = CanvasOf(<<>>, Course2[2]) /\ runs = 0 /\ scan1 = <<>>
  /\ es = NoSchemaCall
  /\ InitLocals
Decide ==
  /\ dss.ret = "none"
  /\ dss' = [dss EXCEPT !.ret = decide_status_from_submission(dss.sub, dss.due_dt, dss.t)]
  /\ UNCHANGED <<destVars, lastSyncFile, now, canvas, runs, es, scan1, pc, cacheVars,
                 log, mainVars, loopVars>>
SpecStatus == InitStatus /\ [][Decide]_vars

\* ------------------------------------------ full_scan twice in a row
\* The state at the entry of full_scan for the first course, with every
\* column present and the horizon of the current clock; full_scan is then
\* called a second time with the same arguments.
InitTwice ==
  /\ dbProps \in {db \in SchemaConfigs : Absent(db) = {}}
  /\ pages \in InitPages(dbProps)
  /\ lastSyncFile = <<>>
  /\ now = Now0
  /\ canvas \in CanvasConfigs
  /\ runs = 1
  /\ dss = NoCall
  /\ scan1 = <<>>
  /\ es = NoSchemaCall
  /\ pc = [p \in AllProcs |-> IF p = 1 THEN "scan_fetch" ELSE "idle"]
  /\ DB_SCHEMA \in {[p \in AllProcs |-> IF p = 1 THEN c ELSE <<>>] :
                      c \in {<<>>, <<dbProps>>}}
  /\ SELECT_CACHE = [p \in AllProcs |-> NoMemo]
  /\ STATUS_IS_STATUS_TYPE =
       [p \in AllProcs |-> IF p = 1 THEN dbProps["Status"] = "status" ELSE TRUE]
  /\ log = [p \in AllProcs |-> {}]
  /\ horizon = [p \in AllProcs |->
                  IF p = 1 THEN [start |-> Now0 - LookbackHours,
                                 end |-> Now0 + LookaheadHours]
                  ELSE NoHorizon]
  /\ last_sync = [p \in AllProcs |-> NoTime]
  /\ ci = [p \in AllProcs |-> IF p = 1 THEN 1 ELSE 0]
  /\ course_name = [p \in AllProcs |->
                      IF p = 1 THEN CourseLabel(1, canvas[1].course) ELSE NoName]
  /\ items = [p \in AllProcs |-> <<>>]
  /\ ai = [p \in AllProcs |-> 0]
  /\ props = [p \in AllProcs |-> EmptyProps]
  /\ page_id = [p \in AllProcs |-> NoPage]

\* The first full_scan has returned: call it again for the same course.
ScanAgain ==
  /\ pc[1] = "course" /\ ci[1] = 2 /\ scan1 = <<>>
  /\ scan1' = <<pages>>
  /\ ci' = [ci EXCEPT ![1] = 1]
  /\ Goto(1, "scan_fetch")
  /\ UNCHANGED <<destVars, lastSyncFile, now, canvas, runs, dss, es, cacheVars, log,
                 horizon, last_sync, course_name, loopVars>>

NextTwice ==
  \/ FsFetch(1) \/ FsFilter(1) \/ FsFind(1) \/ FsUpsert(1) \/ FsEnd(1)
  \/ ScanAgain \/ Tick
SpecTwice == InitTwice /\ [][NextTwice]_vars

\* ------------------------------------------- ensure_schema called twice
\* ensure_schema at the start of main, on a destination where each of Task,
\* Class, Status and Key is missing, has its declared type or has another
\* type; then ensure_schema once more in the same process.
MaxSchemaCalls == 2
SchemaDomain ==
  {[Declared EXCEPT !["Task"] = t, !["Class"] = c, !["Status"] = s, !["Key"] = k] :
     t \in {"title", "absent"},
     c \in {"select", "rich_text", "absent"},
     s \in {"status", "select", "absent"},
     k \in {"rich_text", "absent"}}
InitSchema ==
  /\ dbProps \in SchemaDomain
  /\ pages = <<>>
  /\ lastSyncFile = <<>>
  /\ now = Now0
  /\ canvas = CanvasOf(<<>>, Course2[2])
  /\ runs = 1
  /\ dss = NoCall
  /\ scan1 = <<>>
  /\ es = NoSchemaCall
  /\ pc = [p \in AllProcs |-> IF p = 1 THEN "main" ELSE "idle"]
  /\ DB_SCHEMA = [p \in AllProcs |-> <<>>]
  /\ SELECT_CACHE = [p \in AllProcs |-> NoMemo]
  /\ STATUS_IS_STATUS_TYPE = [p \in AllProcs |-> TRUE]
  /\ log = [p \in AllProcs |-> {}]
  /\ horizon = [p \in AllProcs |-> NoHorizon]
  /\ last_sync = [p \in AllProcs |-> NoTime]
  /\ ci = [p \in AllProcs |-> 0]
  /\ course_name = [p \in AllProcs |-> NoName]
  /\ items = [p \in AllProcs |-> <<>>]
  /\ ai = [p \in AllProcs |-> 0]
  /\ props = [p \in AllProcs |-> EmptyProps]
  /\ page_id = [p \in AllProcs |-> NoPage]
EnsureSchemaCall ==
  /\ pc[1] = "main" /\ es.n < MaxSchemaCalls
  /\ \E F \in Failures(dbProps) :
       LET st == ensure_schema(SchemaCtx(1), F)
       IN  IF st.crashed
             THEN /\ CrashCtx(1, st)
                  /\ UNCHANGED es
             ELSE /\ SetCtx(1, st)
                  /\ es' = [n |-> es.n + 1,
                            before |-> Append(es.before, dbProps),
                            issued |-> Append(es.issued, st.calls)]
                  /\ UNCHANGED <<pc, SELECT_CACHE, mainVars, loopVars>>
  /\ UNCHANGED <<pages, lastSyncFile, now, canvas, runs, dss, scan1>>
SpecSchema == InitSchema /\ [][EnsureSchemaCall]_vars

\* ---------------------------------------------- overlapping invocations
\* Two invocations of the script against the same destination and the same
\* .state directory, their steps interleaved in any order.
InitOverlap ==
  /\ dbProps = Declared
  /\ pages = <<>>
  /\ lastSyncFile = <<>>
  /\ now = Now0
  /\ canvas = CanvasOf(Course1Lists[1], Course2[2])
  /\ runs = 0
  /\ dss = NoCall
  /\ scan1 = <<>>
  /\ es = NoSchemaCall
  /\ InitLocals
NextOverlap == Run(1) \/ Run(2)
SpecOverlap == InitOverlap /\ [][NextOverlap]_vars

\* ================================================================ claims
Moved(p)     == pc'[p] # pc[p] \/ ai'[p] # ai[p]
DeltaPcs     == {"delta_fetch", "delta_loop", "delta_upsert"}
KeyOf(rec)   == rec["Key"][2]
CleanLog(p)  == log[p] \cap {"Notion upsert failed", "Notion query by Key failed"} = {}

\* C1: after any number of single-flight runs, with any remote call allowed
\* to fail, no two destination records carry the same identity key.
C1_NoDuplicates ==
  \A i, j \in 1..Len(pages) : pages[i]["Key"] = pages[j]["Key"] => i = j

SubmissionExists(sub) == sub.kind # "None"
StatusReference(sub, due_dt, t) ==
  CASE SubmissionExists(sub)
         /\ (sub.workflow_state = "graded" \/ sub.workflow_state = "submitted"
             \/ sub.submitted_at \notin {"None", ""})
       -> "Complete"
    [] SubmissionExists(sub) /\ sub.workflow_state = "pending_review"
         /\ sub.workflow_state \notin {"graded", "submitted"}
         /\ sub.submitted_at \in {"None", ""}
       -> "In Progress"
    [] OTHER -> IF due_dt # NoTime /\ due_dt < t THEN "DNF" ELSE "To do"
C3_StatusMatchesReference ==
  dss.ret # "none" =>
    /\ dss.ret = StatusReference(dss.sub, dss.due_dt, dss.t)
    /\ (dss.sub.kind = "dict" /\ dss.sub.submitted_at \notin {"None", ""}
          => dss.ret # "DNF")
C3_Witness ==
  /\ dss.ret = "Complete"
  /\ dss.sub.workflow_state = "unsubmitted"
  /\ dss.sub.submitted_at = "2024-03-01T06:00:00Z"
  /\ dss.due_dt # NoTime /\ dss.due_dt < dss.t

\* C4: the horizon is [now - 7 days, now + LOOKAHEAD_DAYS]; full_scan goes on
\* to the lookup for an assignment exactly when its due instant exists and
\* lies in the horizon, both ends included, and otherwise moves to the next
\* assignment without a destination call.
DueInWindow(a, h) ==
  a.due_at.kind = "iso" /\ h.start <= a.due_at.t /\ a.due_at.t <= h.end
C4_HorizonFilter ==
  [][\A p \in AllProcs :
       /\ (pc[p] = "loaded" /\ pc'[p] = "course")
            => horizon'[p] = [start |-> now - LOOKBACK_DAYS * 24,
                              end |-> now + LOOKAHEAD_DAYS * 24]
       /\ (pc[p] = "scan_loop" /\ ai[p] <= Len(items[p]) /\ Moved(p)
             /\ pc'[p] \notin {"crashed", "cancelled"})
            => /\ (pc'[p] = "scan_find") <=> DueInWindow(items[p][ai[p]], horizon[p])
               /\ pc'[p] # "scan_find" => (pc'[p] = "scan_loop" /\ ai'[p] = ai[p] + 1)
       /\ (pc'[p] \in {"scan_find", "scan_upsert"} /\ Moved(p))
            => /\ pc[p] \in {"scan_loop", "scan_find"}
               /\ DueInWindow(items[p][ai[p]], horizon[p])
               /\ KeyOf(props'[p]) = key_for(COURSE_IDS[ci[p]], items[p][ai[p]].id)
       /\ (pages' # pages /\ pc[p] = "scan_upsert")
            => DueInWindow(items[p][ai[p]], horizon[p])]_vars
C4_Witness ==
  \E p \in AllProcs :
    /\ pc[p] = "scan_upsert"
    /\ items[p][ai[p]].due_at.t \in {horizon[p].start, horizon[p].end}

\* C5: a payload of the delta pass holds no field other than Status, Due,
\* Time and Submission Link, and no step of the delta pass changes the Task,
\* Class, Type, Notes or Key of a record.
DeltaFields == {"Status", "Due", "Time", "Submission Link"}
C5_DeltaScope ==
  [][\A p \in AllProcs :
       pc[p] \in DeltaPcs =>
         /\ \A f \in ColNames \ DeltaFields : props'[p][f] = Unset
         /\ Len(pages') >= Len(pages)
         /\ \A i \in 1..Len(pages) : \A f \in ColNames \ DeltaFields :
              pages'[i][f] = pages[i][f]]_vars
C5_Witness ==
  \E p \in AllProcs :
    /\ pc[p] = "delta_loop" /\ ai[p] > 1
    /\ \E i \in 1..Len(pages) :
         /\ pages[i]["Task"] = OldRecord(dbProps)["Task"]
         /\ pages[i]["Due"] # OldRecord(dbProps)["Due"]

\* C6: right after full_scan has encoded a payload, the class label is in
\* choice form when the Class column is choice-typed and in text form when
\* the Class column has another type.
C6_ClassEncodingFollowsColumn ==
  \A p \in AllProcs :
    pc[p] = "scan_find" =>
      /\ dbProps["Class"] \in {"select", "multi_select"}
           => props[p]["Class"][1] = "select"
      /\ dbProps["Class"] \notin {"select", "multi_select", "absent"}
           => props[p]["Class"][1] = "rich_text"

\* C7: a failed fetch of a course, of its assignment list or of its delta
\* list never ends the run; the run goes on with the next unit.
C7_FetchFailureSkipsUnit ==
  [][\A p \in AllProcs :
       (pc[p] \in {"course", "delta_fetch", "scan_fetch"} /\ pc'[p] # pc[p])
         => pc'[p] # "crashed"]_vars

\* C8: whatever the outcome of a create or update call, the loop goes on with
\* the next item of the same batch; and once full_scan has handled an
\* in-horizon assignment with no failed call in the run, a record with the
\* assignment's key, title and due date exists.
PrevItem(p) == items[p][ai[p] - 1]
C8_MutationFailureIsolated ==
  /\ [][\A p \in AllProcs :
          (pc[p] \in {"scan_upsert", "delta_upsert"} /\ Moved(p) /\ pc'[p] # "cancelled")
            => /\ pc'[p] = (IF pc[p] = "scan_upsert" THEN "scan_loop" ELSE "delta_loop")
               /\ ai'[p] = ai[p] + 1
               /\ items'[p] = items[p] /\ ci'[p] = ci[p]
               /\ (pages' = pages
                   \/ \E i \in 1..Len(pages') : \A f \in ColNames :
                        props[p][f] # Unset => pages'[i][f] = props[p][f])]_vars
  /\ [](\A p \in AllProcs :
          (pc[p] = "scan_loop" /\ ai[p] > 1 /\ CleanLog(p)
             /\ DueInWindow(PrevItem(p), horizon[p]))
            => \E i \in 1..Len(pages) :
                 /\ KeyOf(pages[i]) = key_for(COURSE_IDS[ci[p]], PrevItem(p).id)
                 /\ pages[i]["Due"] = <<"date", PrevItem(p).due_at.t>>
                 /\ pages[i]["Task"][2] \in {<<PrevItem(p).name>>,
                                             <<"Assignment", PrevItem(p).id>>})
C8_Witness ==
  \E p \in AllProcs :
    /\ "Notion upsert failed" \in log[p]
    /\ pc[p] = "scan_upsert" /\ ci[p] = 2
    /\ pages = <<>>

\* C9: no step of the delta pass changes the number of records; it changes a
\* record only by the update of the record find_by_key returned for the key
\* of the current submission's assignment.
C9_DeltaNeverCreates ==
  [][\A p \in AllProcs :
       pc[p] \in DeltaPcs =>
         /\ Len(pages') = Len(pages)
         /\ pc'[p] = "delta_upsert" => page_id'[p] \in 1..Len(pages)
         /\ pages' # pages =>
              /\ pc[p] = "delta_upsert"
              /\ page_id[p] \in 1..Len(pages)
              /\ KeyOf(pages[page_id[p]])
                   = key_for(COURSE_IDS[ci[p]], items[p][ai[p]].assignment.id)
              /\ \A i \in 1..Len(pages) : i # page_id[p] => pages'[i] = pages[i]]_vars
C9_Witness ==
  \E p \in AllProcs :
    /\ pc[p] = "delta_loop" /\ ai[p] > 1
    /\ items[p][ai[p] - 1].assignment.id # 0
    /\ Matching(key_for(COURSE_IDS[ci[p]], items[p][ai[p] - 1].assignment.id)) = {}
    /\ dbProps["Key"] # "absent"
    /\ CleanLog(p)

\* C10: the watermark file changes only in the step that ends a run after the
\* loop over all course ids, so at most once per run; a run that ends any
\* other way leaves the file as it was.
C10_WatermarkOnlyAtEnd ==
  [][/\ lastSyncFile' # lastSyncFile
          => \E p \in AllProcs : /\ pc[p] = "course" /\ ci[p] > Len(COURSE_IDS)
                                 /\ pc'[p] = "done"
     /\ \A p \in AllProcs :
          (pc[p] # pc'[p] /\ pc'[p] \in {"crashed", "cancelled"})
            => lastSyncFile' = lastSyncFile]_vars
C10_Witness ==
  \E p \in AllProcs :
    /\ pc[p] = "done"
    /\ lastSyncFile = <<now>>

\* C11: the watermark file is overwritten only at the end of a run in which
\* every configured course was loaded and no delta fetch failed; a run that
\* printed "Could not load course" or "Delta fetch failed" leaves it alone.
UnitSkipped(p) ==
  log[p] \cap {"Could not load course", "Delta fetch failed"} # {}
C11_WatermarkOnlyAfterSuccess ==
  [][\A p \in AllProcs :
       (pc[p] # "done" /\ pc'[p] = "done" /\ UnitSkipped(p))
         => lastSyncFile' = lastSyncFile]_vars

\* C12: no step removes a record, and an update or create call made by the
\* delta pass or the full scan for an assignment whose due instant is outside
\* the horizon changes no record.
C12_OutOfHorizonUntouched ==
  [][/\ Len(pages') >= Len(pages)
     /\ \A p \in AllProcs :
          /\ (pc[p] = "delta_upsert"
                /\ ~DueInWindow(items[p][ai[p]].assignment, horizon[p]))
               => pages' = pages
          /\ (pc[p] = "scan_upsert" /\ ~DueInWindow(items[p][ai[p]], horizon[p]))
               => pages' = pages]_vars

\* C13: a record whose key already exists is created only by an invocation
\* whose lookup for that key returned nothing although a record carries it;
\* an invocation gets into that position only by its own failed lookup or by
\* another invocation creating the record between its lookup and its create.
\* So duplicates need a failed lookup or two invocations at the same time.
StaleLookup(p) ==
  /\ pc[p] = "scan_upsert" /\ page_id[p] = NoPage
  /\ Matching(KeyOf(props[p])) # {}
NewDuplicate ==
  /\ Len(pages') = Len(pages) + 1
  /\ Matching(KeyOf(pages'[Len(pages')])) # {}
C13_DuplicateNeedsOverlapOrFailedLookup ==
  [][/\ NewDuplicate => \E p \in AllProcs : StaleLookup(p) /\ pc'[p] = "scan_loop"
     /\ \A p \in AllProcs :
          (~StaleLookup(p) /\ StaleLookup(p)') =>
            \/ pc[p] = "scan_find" /\ "Notion query by Key failed" \in log'[p]
            \/ /\ pc[p] = "scan_upsert"
               /\ \E q \in AllProcs \ {p} :
                    pc[q] = "scan_upsert" /\ pc'[q] = "scan_loop"
                      /\ Len(pages') = Len(pages) + 1]_vars
C13_Witness ==
  /\ runs = 2
  /\ \A p \in AllProcs : pc[p] \notin Terminal /\ CleanLog(p)
  /\ \E i, j \in 1..Len(pages) : i # j /\ pages[i]["Key"] = pages[j]["Key"]

\* C14 (as claimed): after ensure_schema has returned, the destination has
\* all nine columns; a column that was absent has its declared type; a column
\* that was present has the type it had and got no creation call; and a
\* second call of ensure_schema issues no creation call.
C14_EnsureSchemaGuarantees ==
  es.n >= 1 =>
    /\ Absent(dbProps) = {}
    /\ \A c \in ColNames :
         /\ es.before[1][c] = "absent" => dbProps[c] = Declared[c]
         /\ es.before[1][c] # "absent"
              => dbProps[c] = es.before[1][c] /\ c \notin es.issued[1]
    /\ es.n >= 2 => es.issued[2] = {}

\* C14 (amended): a call of ensure_schema that returns issues a creation
\* call for exactly the columns missing when it starts; a column that was
\* present keeps its type; a column that was absent has its declared type
\* afterwards or, its creation call having failed, is still absent.  When no
\* creation call has failed, all nine columns exist after the first call and
\* the second call issues no creation call.
DbAfter(k) == IF es.n > k THEN es.before[k + 1] ELSE dbProps
C14_EnsureSchemaUnlessCreationFails ==
  \A k \in 1..es.n :
    /\ es.issued[k] = Absent(es.before[k])
    /\ \A c \in ColNames :
         /\ es.before[k][c] # "absent" => DbAfter(k)[c] = es.before[k][c]
         /\ es.before[k][c] = "absent" => DbAfter(k)[c] \in {Declared[c], "absent"}
    /\ "Failed to create property" \notin log[1]
         => /\ Absent(DbAfter(k)) = {}
            /\ k >= 2 => es.issued[k] = {}
C14_Witness ==
  /\ es.n = 2
  /\ "Failed to create property" \notin log[1]
  /\ es.before[1]["Class"] = "rich_text" /\ dbProps["Class"] = "rich_text"
  /\ es.issued[1] = {"Task", "Status", "Key"}
  /\ es.issued[2] = {}

\* C15: a run goes through its phases in a fixed order.  ensure_schema has
\* returned before the watermark is read; the watermark is read once, before
\* the first course, and the value read is the one every delta pass of the
\* run uses; records are looked up and written only inside a delta pass or a
\* full scan; a course's full scan starts only after its delta pass has
\* ended (or from the course loop when no watermark was read); the step that
\* writes the watermark ends the run and changes nothing else of the
\* destination; and no delta pass runs when no watermark was read.
UpsertPcs == {"delta_upsert", "scan_upsert"}
C15_RunOrder ==
  /\ [][\A p \in AllProcs :
          /\ (pc'[p] = "loaded" /\ pc[p] # "loaded") => pc[p] = "main"
          /\ (pc'[p] = "course" /\ pc[p] # "course")
               => \/ pc[p] = "loaded" /\ ci'[p] = 1
                     /\ last_sync'[p] = load_last_sync
                  \/ pc[p] = "scan_loop" /\ ci'[p] = ci[p] + 1
          /\ (last_sync'[p] # last_sync[p])
               => pc[p] = "loaded" \/ pc'[p] \in Terminal
          /\ (pc'[p] = "delta_fetch" /\ pc[p] # "delta_fetch")
               => pc[p] = "course" /\ last_sync[p] # NoTime
          /\ (pc'[p] = "scan_fetch" /\ pc[p] # "scan_fetch")
               => \/ pc[p] = "course" /\ last_sync[p] = NoTime
                  \/ pc[p] = "delta_fetch"
                  \/ pc[p] = "delta_loop" /\ ai[p] > Len(items[p])
          /\ (pc[p] # pc'[p] /\ pages' # pages) => pc[p] \in UpsertPcs
          /\ (pc[p] # pc'[p] /\ page_id'[p] # NoPage)
               => pc[p] \in {"delta_loop", "scan_find"}
          /\ (pc[p] # pc'[p] /\ lastSyncFile' # lastSyncFile)
               => pc'[p] = "done" /\ pages' = pages /\ dbProps' = dbProps
          /\ (pc[p] = "done" /\ pc'[p] # "done")
               => pc'[p] = "main" /\ runs' = runs + 1]_vars
  /\ [](\A p \in AllProcs :
          /\ pc[p] \in {"idle", "main", "loaded"} => page_id[p] = NoPage
          /\ pc[p] \in DeltaPcs => last_sync[p] # NoTime)
C15_Witness ==
  \E p \in AllProcs :
    /\ runs = 2 /\ last_sync[p] = Now0
    /\ pc[p] = "scan_upsert" /\ ci[p] = 2
    /\ lastSyncFile = <<Now0>>

\* C16: when full_scan reaches an assignment whose due timestamp is
\* malformed, it writes nothing for it and goes on with the next assignment
\* of the course; the run does not end there.
C16_MalformedDueSkipsAssignment ==
  [][\A p \in AllProcs :
       (pc[p] = "scan_loop" /\ ai[p] <= Len(items[p])
          /\ ParseRaises(items[p][ai[p]].due_at)
          /\ Moved(p) /\ pc'[p] # "cancelled")
         => /\ pc'[p] = "scan_loop" /\ ai'[p] = ai[p] + 1
            /\ items'[p] = items[p] /\ ci'[p] = ci[p]
            /\ pages' = pages]_vars

\* C17: while an invocation runs, what it has cached agrees with the
\* destination: a loaded column map is the destination's column map, and a
\* memoised property_is_select("Class") is the answer the Class column of the
\* destination gives.
IsChoice(t) == t \in {"select", "multi_select"}
C17_CacheAgreesWithDestination ==
  \A p \in AllProcs :
    pc[p] \notin Terminal =>
      /\ DB_SCHEMA[p] # <<>> => DB_SCHEMA[p][1] = dbProps
      /\ SELECT_CACHE[p]["Class"] # "unset"
           => ((SELECT_CACHE[p]["Class"] = "yes") <=> IsChoice(dbProps["Class"]))

\* C18: in every payload built by the full scan or the delta pass, Status is
\* in status form when the Status column of the destination has type status
\* and in select form when it has type select.
PayloadPcs == {"scan_find", "scan_upsert", "delta_upsert"}
C18_StatusEncodingFollowsColumn ==
  \A p \in AllProcs :
    pc[p] \in PayloadPcs =>
      /\ props[p]["Status"] # Unset
      /\ dbProps["Status"] = "status" => props[p]["Status"][1] = "status"
      /\ dbProps["Status"] = "select" => props[p]["Status"][1] = "select"
C18_Witness ==
  \E p \in AllProcs :
    /\ pc[p] = "delta_upsert"
    /\ dbProps["Status"] = "select"
    /\ props[p]["Status"] = <<"select", "Complete">>

\* C19: when full_scan has gone through the assignments of a course and no
\* remote call of the run has failed, every assignment due inside the horizon
\* has exactly one record with its key, and that record's Status, Due, Time,
\* Type, Class and Submission Link are the values derived from the source
\* (Status with the clock of some instant of the run).
FailureFree(p) ==
  log[p] \cap {"Notion upsert failed", "Notion query by Key failed",
               "Failed to create property", "Delta fetch failed",
               "Could not load course"} = {}
RunInstants(p) == (horizon[p].start + LookbackHours)..now
Converged(p, a, rec) ==
  /\ rec["Due"] = <<"date", a.due_at.t>>
  /\ rec["Time"] = <<"rich_text", time_str(a.due_at.t)>>
  /\ rec["Type"] = <<"select", classify_type(a)>>
  /\ rec["Class"] # Unset /\ rec["Class"][2] = course_name[p]
  /\ rec["Submission Link"] = <<"url", <<COURSE_IDS[ci[p]], a.id>> >>
  /\ rec["Status"] # Unset
  /\ \E t \in RunInstants(p) :
       rec["Status"][2] = decide_status_from_submission(a.submission, a.due_at.t, t)
ScanDone(p) == pc[p] = "scan_loop" /\ ai[p] > Len(items[p])
C19_FullScanConverges ==
  \A p \in AllProcs :
    (ScanDone(p) /\ FailureFree(p)) =>
      \A k \in 1..Len(items[p]) :
        DueInWindow(items[p][k], horizon[p]) =>
          LET m == Matching(key_for(COURSE_IDS[ci[p]], items[p][k].id))
          IN  /\ Cardinality(m) = 1
              /\ \A i \in m : Converged(p, items[p][k], pages[i])

\* C20: no step changes the Key of an existing record; the payload of the
\* delta pass has no Key; and full_scan updates a record only when the
\* record's Key is the key in the payload.
C20_KeyImmutable ==
  /\ [][\A i \in 1..Len(pages) :
          i <= Len(pages') /\ pages'[i]["Key"] = pages[i]["Key"]]_vars
  /\ [](\A p \in AllProcs :
          /\ pc[p] = "delta_upsert" => props[p]["Key"] = Unset
          /\ (pc[p] = "scan_upsert" /\ page_id[p] # NoPage)
               => pages[page_id[p]]["Key"] = props[p]["Key"])
C20_Witness ==
  \E p \in AllProcs : \E i \in 1..Len(pages) :
    /\ pc[p] = "scan_loop"
    /\ pages[i]["Key"] = OldRecord(dbProps)["Key"]
    /\ pages[i]["Task"] = <<"title", <<"HW3">> >>
    /\ pages[i]["Due"] = <<"date", Now0>>

====
